---- MODULE Spec2Model ----
(***************************************************************************)
(* Model of go_rhapsody: the GoBoard engine (backend/goboard.py), the      *)
(* backend analysis driver (backend/game_analyzer.py) and the second       *)
(* analysis driver (game_analyzer/game_analyzer.py).                       *)
(*                                                                         *)
(* A point is a pair <<x, y>>; GoBoard.board[y][x] is written b[<<x, y>>]. *)
(* Cell values are those of the code: 0 empty, 1 black, 2 white.           *)
(***************************************************************************)
EXTENDS Integers, Sequences, FiniteSets, TLC

VARIABLES
    size,       \* GoBoard.size / GameAnalyzer.board_size
    board,      \* GoBoard.board
    history,    \* GoBoard.history: its length and its last entry
    pm_args,    \* arguments <<x, y, player>> of the latest play_move call, <<>> before any
    pm_before,  \* [board, history] of the GoBoard when that call was entered
    pm_ret,     \* the list that call returned
    calls,      \* number of play_move calls made so far
    moves_analysis,             \* GameAnalyzer.moves_analysis: its length and last entry
    previous_friendly_stones,   \* previous_friendly_stones in GameAnalyzer.analyze
    an_i,       \* number of records of sgf_data the loop of analyze has taken
    an_move,    \* the record taken last, <<>> before any
    an_raised,  \* TRUE once an exception has left GameAnalyzer.analyze
    sgf_board,      \* the sgfmill board of GameAnalyzer.analyze_sgf_game
    analysis_log,   \* GameAnalyzer.analysis_log: its length and last entry
    sg_i,           \* number of nodes the loop of analyze_sgf_game has taken
    sg_node,        \* get_move() of the node taken last, <<>> before any
    gg_pos,     \* the point the group finders were called from last, <<>> before any
    gg_ret      \* what GoBoard.get_group and GameAnalyzer._get_group returned

gobo_vars == <<board, history>>
call_vars == <<pm_args, pm_before, pm_ret, calls>>
an_vars == <<moves_analysis, previous_friendly_stones, an_i, an_move, an_raised>>

sg_vars == <<sgf_board, analysis_log, sg_i, sg_node>>

gg_vars == <<gg_pos, gg_ret>>

vars == <<size, gobo_vars, call_vars, an_vars, sg_vars, gg_vars>>

\* Number of play_move calls explored from the empty board.
MaxMoves == 5

\* Number of move records GameAnalyzer.analyze is given.
MaxGame == 4

\* Board sizes explored: by Spec, and by SpecAnalyze.
Sizes == {2, 3}
AnalyzeSizes == {2, 3, 9}

\* The board size classify_move keeps its opening and shape rules for
\* (self.board_size == 19), explored by SpecOpening.
OpeningSize == 19

Cells(n) == (0 .. n - 1) \X (0 .. n - 1)

\* GoBoard.history is a list of board snapshots that the code only ever
\* appends to and never reads.  The model keeps what an append changes: the
\* length of the list and its last entry.
EmptyHistory == [len |-> 0, last |-> <<>>]

\* self.history.append(([row[:] for row in self.board]))
HistoryAppend(h, b) == [len |-> h.len + 1, last |-> b]

\* GoBoard.__init__: an all-empty grid.
EmptyBoard(n) == [c \in Cells(n) |-> 0]

\* 0 <= x < self.size and 0 <= y < self.size
InRange(x, y, n) == 0 <= x /\ x < n /\ 0 <= y /\ y < n

\* GoBoard.get_neighbors: left, right, up, down, in that order, off-board ones dropped.
get_neighbors(x, y, n) ==
    (IF x > 0 THEN << <<x - 1, y>> >> ELSE <<>>)
    \o (IF x < n - 1 THEN << <<x + 1, y>> >> ELSE <<>>)
    \o (IF y > 0 THEN << <<x, y - 1>> >> ELSE <<>>)
    \o (IF y < n - 1 THEN << <<x, y + 1>> >> ELSE <<>>)

Range(s) == {s[i] : i \in 1 .. Len(s)}

\* get_neighbors of every point of every board size explored, tabulated.
NeighborTable ==
    [n \in Sizes \cup AnalyzeSizes \cup {OpeningSize} |->
        [c \in Cells(n) |-> Range(get_neighbors(c[1], c[2], n))]]

NeighborSet(c, n) == NeighborTable[n][c]

\* The loop of _get_group_and_liberties stopped after the first stone taken
\* from the queue.
Flood_first_stone_only(b, n, player, stones) ==
    stones \cup {c \in UNION {NeighborSet(s, n) : s \in stones} : b[c] = player}

\* The breadth-first loop of _get_group_and_liberties: the stones reached from
\* the stones found so far through neighbours holding `player`.
RECURSIVE Flood(_, _, _, _)
Flood(b, n, player, stones) ==
    LET next == {c \in UNION {NeighborSet(s, n) : s \in stones} : b[c] = player} \ stones
    IN  IF next = {} THEN stones ELSE Flood(b, n, player, stones \cup next)

\* GoBoard._get_group_and_liberties: [stones, liberties] of the group of
\* (x, y) when that cell holds `player`, two empty collections otherwise.
get_group_and_liberties(x, y, player, b, n) ==
    IF ~InRange(x, y, n) \/ b[<<x, y>>] # player
    THEN [stones |-> {}, liberties |-> {}]
    ELSE LET g == Flood(b, n, player, {<<x, y>>})
         IN  [stones |-> g,
              liberties |-> {c \in UNION {NeighborSet(s, n) : s \in g} : b[c] = 0}]

Less(p, q) == p[1] < q[1] \/ (p[1] = q[1] /\ p[2] < q[2])

\* list(stones_in_group): the members of a set as a list without repetition.
\* The order Python gives a set is not part of any contract; the model lists
\* the points in increasing (x, y).
RECURSIVE SetToList(_)
SetToList(S) ==
    IF S = {} THEN <<>>
    ELSE LET m == CHOOSE p \in S : \A q \in S \ {p} : Less(p, q)
         IN  <<m>> \o SetToList(S \ {m})

\* The loop of GoBoard._get_captured_stones over neighbours i .. Len(nbrs).
RECURSIVE CapturedFrom(_, _, _, _, _)
CapturedFrom(nbrs, i, opponent, b, n) ==
    IF i > Len(nbrs) THEN <<>>
    ELSE LET c == nbrs[i]
             gl == get_group_and_liberties(c[1], c[2], opponent, b, n)
         IN  (IF b[c] = opponent /\ gl.liberties = {}
              THEN SetToList(gl.stones) ELSE <<>>)
             \o CapturedFrom(nbrs, i + 1, opponent, b, n)

\* _get_captured_stones looking at the groups of the mover's own colour.
get_captured_stones_own(x, y, player, b, n) ==
    CapturedFrom(get_neighbors(x, y, n), 1, player, b, n)

\* _get_captured_stones returning at the first group it finds without a
\* liberty.
get_captured_stones_first_group(x, y, player, b, n) ==
    LET hits == SelectSeq(get_neighbors(x, y, n),
                          LAMBDA c : b[c] = 3 - player
                                     /\ get_group_and_liberties(c[1], c[2], 3 - player, b, n).liberties = {})
    IN  IF hits = <<>> THEN <<>>
        ELSE SetToList(get_group_and_liberties(hits[1][1], hits[1][2], 3 - player, b, n).stones)

\* GoBoard._get_captured_stones
get_captured_stones(x, y, player, b, n) ==
    CapturedFrom(get_neighbors(x, y, n), 1, 3 - player, b, n)

\* is_valid_move without the test that the cell is empty.
is_valid_move_any_cell(x, y, player, b, n) ==
    IF ~InRange(x, y, n) THEN FALSE
    ELSE LET temp_board == [b EXCEPT ![<<x, y>>] = player]
         IN  IF get_captured_stones(x, y, player, temp_board, n) # <<>> THEN TRUE
             ELSE get_group_and_liberties(x, y, player, temp_board, n).liberties # {}

\* is_valid_move without the test for suicide at its end.
is_valid_move_no_suicide_test(x, y, player, b, n) ==
    IF ~InRange(x, y, n) THEN FALSE
    ELSE b[<<x, y>>] = 0

\* GoBoard.is_valid_move
is_valid_move(x, y, player, b, n) ==
    IF ~InRange(x, y, n) THEN FALSE
    ELSE IF b[<<x, y>>] # 0 THEN FALSE
    ELSE LET temp_board == [b EXCEPT ![<<x, y>>] = player]
         IN  IF get_captured_stones(x, y, player, temp_board, n) # <<>> THEN TRUE
             ELSE get_group_and_liberties(x, y, player, temp_board, n).liberties # {}

\* play_move without the loop that empties the captured cells.
play_move_keep_captured(x, y, player, b, h, n) ==
    IF ~is_valid_move(x, y, player, b, n)
    THEN [board |-> b, history |-> h, ret |-> <<>>]
    ELSE LET placed == [b EXCEPT ![<<x, y>>] = player]
         IN  [board |-> placed, history |-> HistoryAppend(h, placed),
              ret |-> get_captured_stones(x, y, player, placed, n)]

\* GoBoard.play_move as a function of the board and history it is called on:
\* the board and history it leaves and the list it returns.
play_move(x, y, player, b, h, n) ==
    IF ~is_valid_move(x, y, player, b, n)
    THEN [board |-> b, history |-> h, ret |-> <<>>]
    ELSE LET placed == [b EXCEPT ![<<x, y>>] = player]
             captured_stones == get_captured_stones(x, y, player, placed, n)
             after == [c \in Cells(n) |->
                          IF c \in Range(captured_stones) THEN 0 ELSE placed[c]]
         IN  [board |-> after, history |-> HistoryAppend(h, after), ret |-> captured_stones]

----------------------------------------------------------------------------
(* backend/game_analyzer.py: the checks GameAnalyzer.analyze runs on a     *)
(* placement.  `b` is self.board.board, the board after play_move; `bb`    *)
(* is board_before_move.                                                   *)

\* Python's None.  TLC compares only values of one kind, so None is written
\* <<>> where the other values are tuples, "None" where they are strings and
\* -1 where they are numbers (a coordinate of a move record or a distance,
\* none of which is negative in the records explored).
None == <<>>
NoneStr == "None"
NoneNum == -1

\* GoBoard.get_group on board b, for a point of the board.
get_group(x, y, b, n) ==
    IF b[<<x, y>>] = 0
    THEN [stones |-> {}, liberties |-> {}, player |-> 0]
    ELSE LET gl == get_group_and_liberties(x, y, b[<<x, y>>], b, n)
         IN  [stones |-> gl.stones, liberties |-> gl.liberties, player |-> b[<<x, y>>]]

\* GoBoard.get_liberties_for_stones
get_liberties_for_stones(stones, b, n) ==
    {c \in UNION {NeighborSet(s, n) : s \in stones} : b[c] = 0}

\* GameAnalyzer.is_atari: one entry per neighbouring point that holds an
\* opposing stone whose group has exactly one liberty.
is_atari(x, y, player, b, n) ==
    SelectSeq(get_neighbors(x, y, n),
              LAMBDA c : b[c] = 3 - player
                         /\ Cardinality(get_group(c[1], c[2], b, n).liberties) = 1)

\* The loop of detect_atari_threat without the line that reverts the change.
RECURSIVE ThreatLoop_no_revert(_, _, _, _, _, _, _)
ThreatLoop_no_revert(libs, i, x, y, player, b, n) ==
    IF i > Len(libs) THEN [threats |-> <<>>, board |-> b]
    ELSE LET tried == [b EXCEPT ![libs[i]] = 3 - player]
             new_liberties == get_group(x, y, tried, n).liberties
             reverted == tried
             rest == ThreatLoop_no_revert(libs, i + 1, x, y, player, reverted, n)
         IN  [threats |-> (IF Cardinality(new_liberties) = 1 THEN <<libs[i]>> ELSE <<>>)
                          \o rest.threats,
              board |-> rest.board]

\* The loop of GameAnalyzer.detect_atari_threat over liberties i .. Len(libs):
\* writes an opposing stone on the liberty, recounts, writes 0 back.
RECURSIVE ThreatLoop(_, _, _, _, _, _, _)
ThreatLoop(libs, i, x, y, player, b, n) ==
    IF i > Len(libs) THEN [threats |-> <<>>, board |-> b]
    ELSE LET tried == [b EXCEPT ![libs[i]] = 3 - player]
             new_liberties == get_group(x, y, tried, n).liberties
             reverted == [tried EXCEPT ![libs[i]] = 0]
             rest == ThreatLoop(libs, i + 1, x, y, player, reverted, n)
         IN  [threats |-> (IF Cardinality(new_liberties) = 1 THEN <<libs[i]>> ELSE <<>>)
                          \o rest.threats,
              board |-> rest.board]

\* GameAnalyzer.detect_atari_threat: the list it returns and the board it leaves.
detect_atari_threat(x, y, player, b, n) ==
    LET liberties == get_group(x, y, b, n).liberties
    IN  IF Cardinality(liberties) # 2 THEN [threats |-> <<>>, board |-> b]
        ELSE ThreatLoop(SetToList(liberties), 1, x, y, player, b, n)

\* GameAnalyzer.detect_ko
detect_ko(x, y, player) == FALSE

\* GameAnalyzer.is_contact_move
is_contact_move(x, y, player, bb, n) ==
    \E i \in 1 .. Len(get_neighbors(x, y, n)) : bb[get_neighbors(x, y, n)[i]] = 3 - player

\* is_cut_move asking only that the move point be a common liberty.
is_cut_move_shared_point(x, y, player, bb, n) ==
    LET neighboring_enemy_groups ==
            {get_group(c[1], c[2], bb, n).stones :
                c \in {d \in NeighborSet(<<x, y>>, n) : bb[d] = 3 - player}}
    IN  \E g1, g2 \in neighboring_enemy_groups :
            /\ g1 # g2
            /\ <<x, y>> \in get_liberties_for_stones(g1, bb, n)
                            \cap get_liberties_for_stones(g2, bb, n)

\* GameAnalyzer.is_cut_move
is_cut_move(x, y, player, bb, n) ==
    LET neighboring_enemy_groups ==
            {get_group(c[1], c[2], bb, n).stones :
                c \in {d \in NeighborSet(<<x, y>>, n) : bb[d] = 3 - player}}
    IN  IF Cardinality(neighboring_enemy_groups) < 2 THEN FALSE
        ELSE \E g1, g2 \in neighboring_enemy_groups :
                /\ g1 # g2
                /\ get_liberties_for_stones(g1, bb, n) \cap get_liberties_for_stones(g2, bb, n)
                       = {<<x, y>>}

\* is_connection_move without the test that the friends were separate.
is_connection_move_any_two_friends(x, y, player, bb, b, n) ==
    LET adjacent_friends == SelectSeq(get_neighbors(x, y, n), LAMBDA c : bb[c] = player)
        new_group == get_group(x, y, b, n).stones
    IN  IF Len(adjacent_friends) < 2 THEN FALSE
        ELSE \A i \in 1 .. Len(adjacent_friends) : adjacent_friends[i] \in new_group

\* GameAnalyzer.is_connection_move
is_connection_move(x, y, player, bb, b, n) ==
    LET adjacent_friends == SelectSeq(get_neighbors(x, y, n), LAMBDA c : bb[c] = player)
    IN  IF Len(adjacent_friends) < 2 THEN FALSE
        ELSE LET first_friend_group ==
                     get_group(adjacent_friends[1][1], adjacent_friends[1][2], bb, n).stones
                 were_separate ==
                     \E i \in 2 .. Len(adjacent_friends) :
                         adjacent_friends[i] \notin first_friend_group
                 new_group == get_group(x, y, b, n).stones
             IN  IF ~were_separate THEN FALSE
                 ELSE \A i \in 1 .. Len(adjacent_friends) : adjacent_friends[i] \in new_group

\* corner_boundary in GameAnalyzer.is_corner_play
corner_boundary == 4

\* GameAnalyzer.is_corner_play
is_corner_play(x, y, n) ==
    \/ (0 <= x /\ x <= corner_boundary) /\ (0 <= y /\ y <= corner_boundary)
    \/ (n - 1 - corner_boundary <= x /\ x < n) /\ (0 <= y /\ y <= corner_boundary)
    \/ (0 <= x /\ x <= corner_boundary) /\ (n - 1 - corner_boundary <= y /\ y < n)
    \/ (n - 1 - corner_boundary <= x /\ x < n) /\ (n - 1 - corner_boundary <= y /\ y < n)

\* A distance d is kept as its square d * d, an integer: math.sqrt is
\* monotone and exact on perfect squares, so d < 2.5 is d * d <= 6,
\* d == 2.0 is d * d = 4 and d == 3.0 is d * d = 9.
\* GameAnalyzer.distance_between_points, squared.
distance_between_points(x1, y1, x2, y2) == (x1 - x2) * (x1 - x2) + (y1 - y2) * (y1 - y2)

\* GameAnalyzer.distance_from_center with center = (board_size - 1) / 2: four
\* times its square, (2x - (n - 1))^2 + (2y - (n - 1))^2, which is 0 exactly
\* when the distance is 0.0.
distance_from_center(x, y, n) ==
    (2 * x - (n - 1)) * (2 * x - (n - 1)) + (2 * y - (n - 1)) * (2 * y - (n - 1))

Min(S) == CHOOSE v \in S : \A w \in S : v <= w

\* GameAnalyzer.distance_to_nearest_stones: (friendly, enemy), None where
\* the board has no other such stone.
distance_to_nearest_stones(x, y, player, b, n) ==
    LET friendly == {distance_between_points(x, y, c[1], c[2]) :
                        c \in {d \in Cells(n) \ {<<x, y>>} : b[d] = player}}
        enemy == {distance_between_points(x, y, c[1], c[2]) :
                        c \in {d \in Cells(n) \ {<<x, y>>} : b[d] = 3 - player}}
    IN  <<IF friendly = {} THEN NoneNum ELSE Min(friendly),
          IF enemy = {} THEN NoneNum ELSE Min(enemy)>>

\* `dist and dist < 2.5`
NearerThanTwoAndAHalf(dist) == dist # NoneNum /\ dist <= 6

\* GameAnalyzer.is_small_night
is_small_night(x, y, player, b, n) ==
    IF n # 19 THEN NoneStr
    ELSE IF NearerThanTwoAndAHalf(distance_to_nearest_stones(x, y, player, b, n)[1])
         THEN "Small Knight" ELSE NoneStr

\* GameAnalyzer.is_one_space_jump
is_one_space_jump(x, y, player, b, n) ==
    IF n # 19 THEN NoneStr
    ELSE LET dist == distance_to_nearest_stones(x, y, player, b, n)[1]
         IN  IF dist # NoneNum /\ dist = 4 THEN "One space jump" ELSE NoneStr

\* GameAnalyzer.is_two_space_jump
is_two_space_jump(x, y, player, b, n) ==
    IF n # 19 THEN NoneStr
    ELSE LET dist == distance_to_nearest_stones(x, y, player, b, n)[1]
         IN  IF dist # NoneNum /\ dist = 9 THEN "Two space jump" ELSE NoneStr

\* GameAnalyzer.is_corner_enclosure
is_corner_enclosure(x, y, player, b, n) ==
    IF n # 19 THEN NoneStr
    ELSE IF is_corner_play(x, y, n)
              /\ NearerThanTwoAndAHalf(distance_to_nearest_stones(x, y, player, b, n)[1])
         THEN "Small Knight" ELSE NoneStr

\* GameAnalyzer.is_large_enclosure
is_large_enclosure(x, y, player, b, n) ==
    LET dist == distance_to_nearest_stones(x, y, player, b, n)[1]
    IN  IF dist # NoneNum /\ dist = 9 THEN "Large Enclosure" ELSE NoneStr

\* The opening points named in GameAnalyzer.classify_move.
StarPoints == {<<3, 3>>, <<3, 15>>, <<15, 3>>, <<15, 15>>}
ThreeThreePoints == {<<2, 2>>, <<2, 16>>, <<16, 2>>, <<16, 16>>}
ThreeFourPoints ==
    {<<2, 3>>, <<3, 2>>, <<2, 15>>, <<15, 2>>, <<3, 16>>, <<16, 3>>, <<15, 16>>, <<16, 15>>}

\* GameAnalyzer.classify_move: [type, details]; details is the set of
\* (key, value) pairs of the dictionary it returns.
classify_move(x, y, move_index, report, player, b, n) ==
    IF report.captured_count > 0 THEN [type |-> "Capture", details |-> {}]
    ELSE IF report.atari # <<>> THEN [type |-> "Atari", details |-> {}]
    ELSE IF report.is_cut THEN [type |-> "Cut", details |-> {}]
    ELSE IF report.is_connection THEN [type |-> "Connection", details |-> {}]
    ELSE IF report.atari_threats # <<>> THEN [type |-> "Atari Threat", details |-> {}]
    ELSE IF report.is_contact THEN [type |-> "Contact Move", details |-> {}]
    ELSE IF n = 19 /\ move_index < 20 /\ <<x, y>> \in StarPoints
         THEN [type |-> "Star Point", details |-> {}]
    ELSE IF n = 19 /\ move_index < 20 /\ <<x, y>> \in ThreeThreePoints
         THEN [type |-> "3-3 Point", details |-> {}]
    ELSE IF n = 19 /\ move_index < 20 /\ <<x, y>> \in ThreeFourPoints
         THEN [type |-> "3-4 Point", details |-> {}]
    ELSE IF n = 19 /\ move_index < 20 /\ move_index = 0
         THEN [type |-> "First Corner Play", details |-> {}]
    ELSE LET enclosure_type == is_corner_enclosure(x, y, player, b, n)
             large_enclosure_type == is_large_enclosure(x, y, player, b, n)
         IN  IF enclosure_type # NoneStr
             THEN IF large_enclosure_type # NoneStr
                  THEN [type |-> large_enclosure_type,
                        details |-> {<<"enclosure_type", enclosure_type>>,
                                     <<"large_enclosure_type", large_enclosure_type>>}]
                  ELSE [type |-> "Corner Enclosure",
                        details |-> {<<"enclosure_type", enclosure_type>>}]
             ELSE IF report.is_small_night # NoneStr THEN [type |-> "Small Knight", details |-> {}]
             ELSE IF report.is_one_space_jump # NoneStr
                  THEN [type |-> "One-Space Jump", details |-> {}]
             ELSE IF report.is_two_space_jump # NoneStr
                  THEN [type |-> "Two-Space Jump", details |-> {}]
             ELSE IF report.is_corner_play THEN [type |-> "Corner Play", details |-> {}]
             ELSE [type |-> "Normal Move", details |-> {}]

\* self.moves_analysis is a list the code only ever appends to; the model
\* keeps its length and its last entry.
EmptyLog == [len |-> 0, last |-> <<>>]

\* self.moves_analysis.append(report)
LogAppend(log, report) == [len |-> log.len + 1, last |-> report]

\* player_map in GameAnalyzer.analyze
player_map == [B |-> 1, W |-> 2]

\* The report of a placement as GameAnalyzer.analyze has filled it when it
\* calls classify_move.  `b1` is the board play_move left, `b2` the board
\* detect_atari_threat left, `prev_stone` previous_friendly_stones[player].
PlacementReport(move, i, captured_stones, bb, b1, threat, prev_stone, n) ==
    LET x == move.x
        y == move.y
        player == player_map[move.player]
        b2 == threat.board
        nearest == distance_to_nearest_stones(x, y, player, b2, n)
    IN  [move_number |-> i + 1,
         player |-> move.player,
         sgf_coords |-> move.sgf_coords,
         coords |-> <<x, y>>,
         captured_count |-> Len(captured_stones),
         captures |-> captured_stones,
         liberties |-> Cardinality(get_group(x, y, b1, n).liberties),
         atari |-> is_atari(x, y, player, b1, n),
         atari_threats |-> threat.threats,
         ko_detected |-> detect_ko(x, y, player),
         is_contact |-> is_contact_move(x, y, player, bb, n),
         is_cut |-> is_cut_move(x, y, player, bb, n),
         is_connection |-> is_connection_move(x, y, player, bb, b2, n),
         is_corner_play |-> is_corner_play(x, y, n),
         is_small_night |-> is_small_night(x, y, player, b2, n),
         is_one_space_jump |-> is_one_space_jump(x, y, player, b2, n),
         is_two_space_jump |-> is_two_space_jump(x, y, player, b2, n),
         distance_from_center |-> distance_from_center(x, y, n),
         distance_from_previous_friendly_stone |->
             IF prev_stone # None
             THEN distance_between_points(x, y, prev_stone[1], prev_stone[2])
             ELSE NoneNum,
         distance_to_nearest_friendly_stone |-> nearest[1],
         distance_to_nearest_enemy_stone |-> nearest[2]]

\* The end of the loop body: report['type'] and, when classify_move names
\* one, report['large_enclosure_type'].
Classified(report, cls) ==
    LET large == {d \in cls.details : d[1] = "large_enclosure_type"}
    IN  IF large = {} THEN [type |-> cls.type] @@ report
        ELSE [type |-> cls.type,
              large_enclosure_type |-> (CHOOSE d \in large : TRUE)[2]] @@ report

\* self.board.board[y][x] raises IndexError for an index past the last line.
\* (The move records explored have no negative coordinate.)
RaisesIndexError(x, y, n) == x >= n \/ y >= n

\* The loop body of analyze keeping one previous stone for both players.
analyze_move_one_previous_stone(move, i, b, h, prev, log, n) ==
    IF move.x = NoneNum \/ move.y = NoneNum
    THEN [raised |-> FALSE, board |-> b, history |-> h, prev |-> prev, ret |-> <<>>,
          log |-> LogAppend(log, [move_number |-> i + 1,
                                  player |-> move.player,
                                  sgf_coords |-> move.sgf_coords,
                                  coords |-> <<move.x, move.y>>,
                                  type |-> "Pass"])]
    ELSE LET x == move.x
             y == move.y
             player == player_map[move.player]
             played == play_move(x, y, player, b, h, n)
         IN  IF RaisesIndexError(x, y, n)
             THEN [raised |-> TRUE, board |-> played.board, history |-> played.history,
                   prev |-> prev, ret |-> played.ret, log |-> log]
             ELSE LET threat == detect_atari_threat(x, y, player, played.board, n)
                      report == PlacementReport(move, i, played.ret, b, played.board,
                                                threat, prev[move.player], n)
                      cls == classify_move(x, y, i, report, player, threat.board, n)
                  IN  [raised |-> FALSE,
                       ret |-> played.ret,
                       board |-> threat.board,
                       history |-> played.history,
                       prev |-> [B |-> <<x, y>>, W |-> <<x, y>>],
                       log |-> LogAppend(log, Classified(report, cls))]

\* One iteration of the loop of GameAnalyzer.analyze on record `move` with
\* index i: the board, history, previous_friendly_stones and moves_analysis
\* it leaves, or raised = TRUE when an exception leaves the loop.
analyze_move(move, i, b, h, prev, log, n) ==
    IF move.x = NoneNum \/ move.y = NoneNum
    THEN [raised |-> FALSE, board |-> b, history |-> h, prev |-> prev, ret |-> <<>>,
          log |-> LogAppend(log, [move_number |-> i + 1,
                                  player |-> move.player,
                                  sgf_coords |-> move.sgf_coords,
                                  coords |-> <<move.x, move.y>>,
                                  type |-> "Pass"])]
    ELSE LET x == move.x
             y == move.y
             player == player_map[move.player]
             played == play_move(x, y, player, b, h, n)
         IN  IF RaisesIndexError(x, y, n)
             THEN [raised |-> TRUE, board |-> played.board, history |-> played.history,
                   prev |-> prev, ret |-> played.ret, log |-> log]
             ELSE LET threat == detect_atari_threat(x, y, player, played.board, n)
                      report == PlacementReport(move, i, played.ret, b, played.board,
                                                threat, prev[move.player], n)
                      cls == classify_move(x, y, i, report, player, threat.board, n)
                  IN  [raised |-> FALSE,
                       ret |-> played.ret,
                       board |-> threat.board,
                       history |-> played.history,
                       prev |-> [prev EXCEPT ![move.player] = <<x, y>>],
                       log |-> LogAppend(log, Classified(report, cls))]

\* Letters of the SGF coordinate notation: 0 is 'a', 1 is 'b', ...
SgfLetters ==
    <<"a", "b", "c", "d", "e", "f", "g", "h", "i", "j",
      "k", "l", "m", "n", "o", "p", "q", "r", "s", "t">>

\* The move dictionary SGFParser.parse builds for a placement at (x, y).
PlacementRecord(player_str, x, y) ==
    [player |-> player_str, sgf_coords |-> SgfLetters[x + 1] \o SgfLetters[y + 1],
     x |-> x, y |-> y]

\* The move dictionary SGFParser.parse builds for a pass.
PassRecord(player_str) ==
    [player |-> player_str, sgf_coords |-> "pass", x |-> NoneNum, y |-> NoneNum]

----------------------------------------------------------------------------
(* game_analyzer/game_analyzer.py: the analyzer built on sgfmill.  A point  *)
(* is a pair <<r, c>>; the cell values of an sgfmill board are "b", "w"     *)
(* and None (written NoneStr); board lists hold "B", "W" and "E".           *)

SGF_BLACK == "b"
SGF_WHITE == "w"
SGF_EMPTY == NoneStr
LIST_BLACK == "B"
LIST_WHITE == "W"
LIST_EMPTY == "E"

\* sgfmill.boards.Board(side): every point empty.
SgfEmptyBoard(n) == [c \in Cells(n) |-> SGF_EMPTY]

\* GameAnalyzer._get_opposite_color_sgf
get_opposite_color_sgf(color) ==
    IF color = SGF_BLACK THEN SGF_WHITE
    ELSE IF color = SGF_WHITE THEN SGF_BLACK
    ELSE SGF_EMPTY

\* GameAnalyzer._is_on_board
is_on_board(r, c, n) == 0 <= r /\ r < n /\ 0 <= c /\ c < n

\* GameAnalyzer._neighbors: up, down, left, right, off-board ones dropped.
neighbors(r, c, n) ==
    SelectSeq(<< <<r - 1, c>>, <<r + 1, c>>, <<r, c - 1>>, <<r, c + 1>> >>,
              LAMBDA p : is_on_board(p[1], p[2], n))

\* _neighbors of every point of every board size explored, tabulated.
SgfNeighborTable ==
    [n \in Sizes \cup AnalyzeSizes |-> [p \in Cells(n) |-> Range(neighbors(p[1], p[2], n))]]

SgfNeighborSet(p, n) == SgfNeighborTable[n][p]

\* The stack loop of GameAnalyzer._get_group: the points of colour `color`
\* reached from the points found so far.
RECURSIVE SgfFlood(_, _, _, _)
SgfFlood(sb, n, color, visited) ==
    LET next == {p \in UNION {SgfNeighborSet(q, n) : q \in visited} : sb[p] = color} \ visited
    IN  IF next = {} THEN visited ELSE SgfFlood(sb, n, color, visited \cup next)

\* GameAnalyzer._get_group
sgf_get_group(sb, pos, n) ==
    IF sb[pos] = SGF_EMPTY THEN {} ELSE SgfFlood(sb, n, sb[pos], {pos})

\* GameAnalyzer._get_liberties
sgf_get_liberties(sb, group, n) ==
    {p \in UNION {SgfNeighborSet(q, n) : q \in group} : sb[p] = SGF_EMPTY}

\* GameAnalyzer._board_to_list
board_to_list(sb, n) ==
    [c \in Cells(n) |->
        IF sb[c] = SGF_BLACK THEN LIST_BLACK
        ELSE IF sb[c] = SGF_WHITE THEN LIST_WHITE
        ELSE LIST_EMPTY]

\* GameAnalyzer._coords_to_sgf_string
coords_to_sgf_string(r, c) == SgfLetters[c + 1] \o SgfLetters[r + 1]

\* sgfmill's Board.play(row, col, colour), as its documentation states it:
\* IndexError for a point off the board, ValueError for a point that is not
\* empty; otherwise the stone is placed, the opposing groups next to it that
\* are left without liberties are removed, and when there is none and the
\* group of the new stone has no liberty that group is removed
\* (self-capture is allowed).  The result is the point forbidden by simple
\* ko: the single captured stone, when the capturing stone was itself a
\* single stone without liberties before the capture.
sgf_play(sb, r, c, colour, n) ==
    IF ~is_on_board(r, c, n)
    THEN [raised |-> TRUE, reason |-> "list index out of range", board |-> sb, ko |-> None]
    ELSE IF sb[<<r, c>>] # SGF_EMPTY
    THEN [raised |-> TRUE, reason |-> "", board |-> sb, ko |-> None]
    ELSE LET placed == [sb EXCEPT ![<<r, c>>] = colour]
             opponent == get_opposite_color_sgf(colour)
             own == sgf_get_group(placed, <<r, c>>, n)
             own_surrounded == sgf_get_liberties(placed, own, n) = {}
             opp_surrounded ==
                 {g \in {sgf_get_group(placed, p, n) :
                            p \in {q \in SgfNeighborSet(<<r, c>>, n) : placed[q] = opponent}} :
                     sgf_get_liberties(placed, g, n) = {}}
             to_capture == IF opp_surrounded # {} THEN UNION opp_surrounded
                           ELSE IF own_surrounded THEN own ELSE {}
             ko == IF /\ own_surrounded
                      /\ Cardinality(opp_surrounded) = 1
                      /\ Cardinality(UNION opp_surrounded) = 1
                      /\ Cardinality(own) = 1
                   THEN CHOOSE p \in UNION opp_surrounded : TRUE
                   ELSE None
         IN  [raised |-> FALSE, reason |-> "",
              board |-> [p \in Cells(n) |-> IF p \in to_capture THEN SGF_EMPTY ELSE placed[p]],
              ko |-> ko]

\* GameAnalyzer._is_contact_play
is_contact_play(sb, row, col, player_color, n) ==
    \E i \in 1 .. Len(neighbors(row, col, n)) :
        sb[neighbors(row, col, n)[i]] = get_opposite_color_sgf(player_color)

\* GameAnalyzer._calculate_distance_from_center, as four times its square.
calculate_distance_from_center(r, c, n) == distance_from_center(r, c, n)

\* GameAnalyzer._calculate_distance_to_nearest_friendly_stone, squared.
calculate_distance_to_nearest_friendly_stone(sb, move_row, move_col, player_color, n) ==
    LET dists == {distance_between_points(move_row, move_col, p[1], p[2]) :
                     p \in {q \in Cells(n) \ {<<move_row, move_col>>} : sb[q] = player_color}}
    IN  IF dists = {} THEN NoneNum ELSE Min(dists)

\* GameAnalyzer._check_self_atari
check_self_atari(sb, row, col, n) ==
    Cardinality(sgf_get_liberties(sb, sgf_get_group(sb, <<row, col>>, n), n)) = 1

\* The loop of GameAnalyzer._check_atari_threats over neighbours i .. Len(nbrs):
\* the groups (as sorted tuples of points) with one and with two liberties.
RECURSIVE AtariLoop(_, _, _, _, _, _)
AtariLoop(nbrs, i, sb, opponent_color, checked_groups, n) ==
    IF i > Len(nbrs) THEN [atari |-> <<>>, threats |-> <<>>]
    ELSE LET opp_group == sgf_get_group(sb, nbrs[i], n)
         IN  IF sb[nbrs[i]] # opponent_color \/ opp_group \in checked_groups
             THEN AtariLoop(nbrs, i + 1, sb, opponent_color, checked_groups, n)
             ELSE LET num_liberties == Cardinality(sgf_get_liberties(sb, opp_group, n))
                      reportable_group == SetToList(opp_group)
                      rest == AtariLoop(nbrs, i + 1, sb, opponent_color,
                                        checked_groups \cup {opp_group}, n)
                  IN  [atari |-> (IF num_liberties = 1 THEN <<reportable_group>> ELSE <<>>)
                                     \o rest.atari,
                       threats |-> (IF num_liberties = 2 THEN <<reportable_group>> ELSE <<>>)
                                       \o rest.threats]

\* GameAnalyzer._check_atari_threats
check_atari_threats(sb, row, col, player_color, n) ==
    AtariLoop(neighbors(row, col, n), 1, sb, get_opposite_color_sgf(player_color), {}, n)

\* The colour a board-list character stands for in GameAnalyzer._check_captures.
ListToSgf(ch) ==
    IF ch = LIST_BLACK THEN SGF_BLACK
    ELSE IF ch = LIST_WHITE THEN SGF_WHITE
    ELSE SGF_EMPTY

\* GameAnalyzer._check_captures
check_captures(sb, last_move_coords, player_color, board_before_move_list, n) ==
    SelectSeq(neighbors(last_move_coords[1], last_move_coords[2], n),
              LAMBDA p : /\ ListToSgf(board_before_move_list[p])
                               = get_opposite_color_sgf(player_color)
                         /\ sb[p] = SGF_EMPTY)

\* The musical intensity GameAnalyzer.analyze_patterns_after_move maps a
\* filled report to.
MusicalIntensity(report, is_contact) ==
    IF report.self_atari \/ report.atari # <<>> THEN "high_tension"
    ELSE IF report.type = "Capture" THEN "percussive_hit"
    ELSE IF is_contact THEN "close_engagement"
    ELSE IF report.distance_from_center < 36 THEN "central_harmony"
    ELSE IF /\ report.distance_to_nearest_friendly_stone # NoneNum
            /\ report.distance_to_nearest_friendly_stone < 4
         THEN "consolidation_melody"
    ELSE "background_pulse"

\* GameAnalyzer.analyze_patterns_after_move: the entries it adds to the report.
analyze_patterns_after_move(row, col, player_color_char, sb, board_before_move_list, n) ==
    LET player_color == IF player_color_char = "b" THEN SGF_BLACK ELSE SGF_WHITE
        is_contact == is_contact_play(sb, row, col, player_color, n)
        groups == check_atari_threats(sb, row, col, player_color, n)
        captured_stones == check_captures(sb, <<row, col>>, player_color,
                                          board_before_move_list, n)
        filled == [type |-> IF captured_stones # <<>> THEN "Capture"
                            ELSE IF is_contact THEN "Contact Move" ELSE "Normal Move",
                   distance_from_center |-> calculate_distance_from_center(row, col, n),
                   distance_to_nearest_friendly_stone |->
                       calculate_distance_to_nearest_friendly_stone(sb, row, col,
                                                                    player_color, n),
                   self_atari |-> check_self_atari(sb, row, col, n),
                   atari |-> groups.atari,
                   atari_threats |-> groups.threats,
                   captures |-> captured_stones,
                   captured_count |-> Len(captured_stones)]
    IN  [musical_intensity |-> MusicalIntensity(filled, is_contact)] @@ filled

\* analysis_report['ko_detected'] = True, set when board.play names a ko point.
WithKo(report, ko_point) ==
    IF ko_point # None THEN [ko_detected |-> TRUE] @@ report ELSE report

\* Python's str.upper on a colour character.
Upper(color_char) == IF color_char = "b" THEN "B" ELSE "W"

\* One iteration of the loop of GameAnalyzer.analyze_sgf_game on the node
\* whose get_move() is (color_char, coords), with number i: the sgfmill
\* board it leaves and the report it appends.
analyze_sgf_node(color_char, coords, i, sb, n) ==
    LET head == [move_number |-> i,
                 player |-> IF color_char # NoneStr THEN Upper(color_char) ELSE "PASS",
                 board_before_move_state |-> board_to_list(sb, n)]
    IN  IF coords = None
        THEN [board |-> sb,
              report |-> [type |-> "Pass",
                          coords |-> None,
                          sgf_coords |-> "",
                          distance_from_center |-> NoneNum,
                          distance_to_nearest_friendly_stone |-> NoneNum,
                          self_atari |-> FALSE,
                          atari |-> <<>>,
                          atari_threats |-> <<>>,
                          captures |-> <<>>,
                          captured_count |-> 0,
                          musical_intensity |-> "rest",
                          board_after_move_state |-> board_to_list(sb, n)] @@ head]
        ELSE LET r == coords[1]
                 c == coords[2]
                 placed == [coords |-> <<r, c>>,
                            sgf_coords |-> coords_to_sgf_string(r, c)] @@ head
                 played == sgf_play(sb, r, c, color_char, n)
             IN  IF played.raised
                 THEN [board |-> sb,
                       report |-> [type |-> "Illegal Move",
                                   reason |-> played.reason,
                                   distance_from_center |-> NoneNum,
                                   distance_to_nearest_friendly_stone |-> NoneNum,
                                   self_atari |-> FALSE,
                                   atari |-> <<>>,
                                   atari_threats |-> <<>>,
                                   captures |-> <<>>,
                                   captured_count |-> 0,
                                   musical_intensity |-> "error_sound",
                                   board_after_move_state |-> board_to_list(sb, n)]
                                  @@ placed]
                 ELSE [board |-> played.board,
                       report |-> [board_after_move_state |-> board_to_list(played.board, n)]
                                  @@ analyze_patterns_after_move(r, c, color_char, played.board,
                                                                 head.board_before_move_state, n)
                                  @@ WithKo(placed, played.ko)]

\* GoBoard(size) and GameAnalyzer(sgf_data, board_size): the state after
\* construction, for board size n.
InitState(n) ==
    /\ size = n
    /\ board = EmptyBoard(n)
    /\ history = EmptyHistory
    /\ pm_args = <<>>
    /\ pm_before = [board |-> EmptyBoard(n), history |-> EmptyHistory]
    /\ pm_ret = <<>>
    /\ calls = 0
    /\ moves_analysis = EmptyLog
    /\ previous_friendly_stones = [B |-> None, W |-> None]
    /\ an_i = 0
    /\ an_move = <<>>
    /\ an_raised = FALSE
    /\ sgf_board = SgfEmptyBoard(n)
    /\ analysis_log = EmptyLog
    /\ sg_i = 0
    /\ sg_node = <<>>
    /\ gg_pos = <<>>
    /\ gg_ret = <<>>

Init == \E n \in Sizes : InitState(n)

\* The arguments play_move is called with: every point of the board for both
\* players, one point with a negative coordinate and one past the last line.
PlayInputs(n) ==
    {<<c[1], c[2], p>> : c \in Cells(n), p \in {1, 2}} \cup {<<-1, 0, 1>>, <<0, n, 2>>}

\* One call board.play_move(x, y, player).
PlayMove ==
    /\ calls < MaxMoves
    /\ \E a \in PlayInputs(size) :
          \E r \in {play_move(a[1], a[2], a[3], board, history, size)} :
              /\ board' = r.board
              /\ history' = r.history
              /\ pm_ret' = r.ret
              /\ pm_args' = a
              /\ pm_before' = [board |-> board, history |-> history]
    /\ calls' = calls + 1
    /\ UNCHANGED <<size, an_vars, sg_vars, gg_vars>>

Next == PlayMove

Spec == Init /\ [][Next]_vars

InitAnalyze == \E n \in AnalyzeSizes : InitState(n)

\* The points move records are placed on: every point of a small board, a
\* few points around the centre and one corner of the 9x9 board; on the 19x19
\* board the centre, the points one and two spaces from it along a line, a
\* star point and a corner point that is none of the named opening points.
InputPoints(n) ==
    IF n <= 3 THEN Cells(n)
    ELSE IF n = OpeningSize THEN {<<9, 9>>, <<9, 11>>, <<9, 12>>, <<3, 3>>, <<1, 1>>}
    ELSE {<<4, 4>>, <<4, 5>>, <<0, 0>>}

\* The move records given to GameAnalyzer.analyze: placements on the points
\* above, passes, and one placement past the last line, for both players.
AnalyzeInputs(n) ==
    {PlacementRecord(p, c[1], c[2]) : p \in {"B", "W"}, c \in InputPoints(n)}
        \cup {PassRecord(p) : p \in {"B", "W"}}
        \cup {PlacementRecord("B", n, 0)}

\* One iteration of the loop of GameAnalyzer.analyze.  A placement calls
\* board.play_move once; pm_args, pm_before and pm_ret record that call.
AnalyzeMove ==
    /\ ~an_raised
    /\ an_i < MaxGame
    /\ \E move \in AnalyzeInputs(size) :
          \E r \in {analyze_move(move, an_i, board, history, previous_friendly_stones,
                                 moves_analysis, size)} :
              /\ board' = r.board
              /\ history' = r.history
              /\ previous_friendly_stones' = r.prev
              /\ moves_analysis' = r.log
              /\ an_raised' = r.raised
              /\ an_move' = move
              /\ IF move.x = NoneNum \/ move.y = NoneNum
                 THEN UNCHANGED call_vars
                 ELSE /\ pm_args' = <<move.x, move.y, player_map[move.player]>>
                      /\ pm_before' = [board |-> board, history |-> history]
                      /\ pm_ret' = r.ret
                      /\ calls' = calls + 1
    /\ an_i' = an_i + 1
    /\ UNCHANGED <<size, sg_vars, gg_vars>>

NextAnalyze == AnalyzeMove

SpecAnalyze == InitAnalyze /\ [][NextAnalyze]_vars

\* GameAnalyzer(sgf_data, board_size=19).analyze(): the same loop on the
\* board size of the opening and shape rules.
InitOpening == InitState(OpeningSize)

NextOpening == AnalyzeMove

SpecOpening == InitOpening /\ [][NextOpening]_vars

\* What get_move() gives for the nodes of the game: a placement on the
\* points above, a pass, or a placement past the last line (a game record
\* larger than the analyzer's board), for both colours; and a node that
\* holds no move.
SgfInputs(n) ==
    ({"b", "w"} \X (InputPoints(n) \cup {None, <<n, 0>>})) \cup {<<NoneStr, None>>}

\* One iteration of the loop of GameAnalyzer.analyze_sgf_game.
AnalyzeSgfNode ==
    /\ sg_i < MaxGame
    /\ \E node \in SgfInputs(size) :
          \E r \in {analyze_sgf_node(node[1], node[2], sg_i + 1, sgf_board, size)} :
              /\ sgf_board' = r.board
              /\ analysis_log' = LogAppend(analysis_log, r.report)
              /\ sg_node' = node
    /\ sg_i' = sg_i + 1
    /\ UNCHANGED <<size, gobo_vars, call_vars, an_vars, gg_vars>>

NextSgf == AnalyzeSgfNode

SpecSgf == InitAnalyze /\ [][NextSgf]_vars

----------------------------------------------------------------------------
(* The analysis of one record as a function of the position it is applied  *)
(* to, and the group finders as functions of the board and the start point. *)

\* The boards play_move can leave: those on which every group has a liberty.
\* (Placing the stones of such a board one by one captures nothing and is
\* never refused, since a stone placed early only has more empty neighbours.)
Positions(n) ==
    {b \in [Cells(n) -> {0, 1, 2}] :
        \A c \in Cells(n) : b[c] # 0 => get_group(c[1], c[2], b, n).liberties # {}}

\* GameAnalyzer.analyze about to take its first record on a GoBoard that
\* holds position b.
InitOn(n, b) ==
    /\ size = n
    /\ board = b
    /\ history = EmptyHistory
    /\ pm_args = <<>>
    /\ pm_before = [board |-> b, history |-> EmptyHistory]
    /\ pm_ret = <<>>
    /\ calls = 0
    /\ moves_analysis = EmptyLog
    /\ previous_friendly_stones = [B |-> None, W |-> None]
    /\ an_i = 0
    /\ an_move = <<>>
    /\ an_raised = FALSE
    /\ sgf_board = [c \in Cells(n) |->
                       IF b[c] = 1 THEN SGF_BLACK
                       ELSE IF b[c] = 2 THEN SGF_WHITE ELSE SGF_EMPTY]
    /\ analysis_log = EmptyLog
    /\ sg_i = 0
    /\ sg_node = <<>>
    /\ gg_pos = <<>>
    /\ gg_ret = <<>>

InitPosition == \E n \in Sizes : \E b \in Positions(n) : InitOn(n, b)

\* The first iteration of the loop of GameAnalyzer.analyze.
AnalyzePosition == an_i = 0 /\ AnalyzeMove

NextPosition == AnalyzePosition

SpecPosition == InitPosition /\ [][NextPosition]_vars

\* The group finders are handed every board, also those with a group that
\* has no liberty: is_valid_move and detect_atari_threat call them on such
\* boards.
InitGroup == \E n \in Sizes : \E b \in [Cells(n) -> {0, 1, 2}] : InitOn(n, b)

\* self.board.get_group(x, y) and self._get_group(board, (x, y)) called from
\* a point of the board.
CallGetGroup ==
    /\ gg_pos = <<>>
    /\ \E c \in Cells(size) :
          /\ gg_pos' = c
          /\ gg_ret' = [stones |-> get_group(c[1], c[2], board, size).stones,
                        sgf_stones |-> sgf_get_group(sgf_board, c, size)]
    /\ UNCHANGED <<size, gobo_vars, call_vars, an_vars, sg_vars>>

NextGroup == CallGetGroup

SpecGroup == InitGroup /\ [][NextGroup]_vars

----------------------------------------------------------------------------
(* Properties of GoBoard.play_move, checked under Spec. *)

Called == pm_args # <<>>
pm_x == pm_args[1]
pm_y == pm_args[2]
pm_player == pm_args[3]
pm_point == <<pm_x, pm_y>>

\* The stones of board b that can reach an empty cell through stones of their
\* own colour: those next to an empty cell, then, repeatedly, their
\* same-coloured neighbours.
RECURSIVE Breathing(_, _, _)
Breathing(b, n, S) ==
    LET more == {c \in Cells(n) \ S :
                    b[c] # 0 /\ \E d \in NeighborSet(c, n) : d \in S /\ b[d] = b[c]}
    IN  IF more = {} THEN S ELSE Breathing(b, n, S \cup more)

NextToEmpty(b, n) == {c \in Cells(n) : b[c] # 0 /\ \E d \in NeighborSet(c, n) : b[d] = 0}

\* C1: a play_move call whose coordinates are outside [0, size) or whose cell
\* is occupied returns an empty list and leaves the board and the history
\* list as they were.
C1_RejectedCallChangesNothing ==
    (Called /\ (~InRange(pm_x, pm_y, size) \/ pm_before.board[pm_point] # 0))
        => (pm_ret = <<>> /\ board = pm_before.board /\ history = pm_before.history)

\* A call on an occupied cell of a board that already has a history.
C1_Witness ==
    /\ Called
    /\ InRange(pm_x, pm_y, size)
    /\ pm_before.board[pm_point] # 0
    /\ pm_before.history.len > 0

\* C2: in every board reached by play_move calls from the empty board, every
\* stone belongs to a group with at least one liberty.
C2_EveryGroupHasALiberty ==
    \A c \in Cells(size) :
        board[c] # 0 => c \in Breathing(board, size, NextToEmpty(board, size))

\* A move has just removed stones and both colours are still on the board.
C2_Witness ==
    /\ Called
    /\ pm_ret # <<>>
    /\ \E c, d \in Cells(size) : board[c] = 1 /\ board[d] = 2

----------------------------------------------------------------------------
(* Properties of the reports of GameAnalyzer.analyze, checked under         *)
(* SpecAnalyze, and of GameAnalyzer.analyze_sgf_game, checked under SpecSgf. *)

\* The last record analyze has processed was a placement / a pass.
PlacementProcessed == an_i > 0 /\ an_move.x # NoneNum /\ an_move.y # NoneNum
PassProcessed == an_i > 0 /\ (an_move.x = NoneNum \/ an_move.y = NoneNum)

\* The report analyze appended last.
LastReport == moves_analysis.last

\* The cells the last play_move call emptied of opposing stones.
RemovedCells ==
    {c \in Cells(size) : pm_before.board[c] = 3 - pm_player /\ board[c] = 0}

\* The last node analyze_sgf_game has processed, its report, and the boards
\* the report shows before and after the node.
LastSgfReport == analysis_log.last
SgfPlacementProcessed == sg_i > 0 /\ sg_node[2] # None
SgfPlayed == SgfPlacementProcessed /\ LastSgfReport.type # "Illegal Move"
SgfBefore == LastSgfReport.board_before_move_state
SgfAfter == LastSgfReport.board_after_move_state
SgfRemovedCells ==
    {c \in Cells(size) :
        /\ SgfBefore[c] \in {LIST_BLACK, LIST_WHITE}
        /\ SgfBefore[c] # LastSgfReport.player
        /\ SgfAfter[c] = LIST_EMPTY}

\* C3 for analyze_sgf_game: every point its report lists as captured held
\* the opposing colour before the move and is empty after it.
C3_SgfReportedCapturesAreOpposingStones ==
    SgfPlayed => Range(LastSgfReport.captures) \subseteq SgfRemovedCells

\* C4: the captures list of a placement report holds each stone the move
\* removed exactly once, so captured_count is the number of cells that held
\* an opposing stone before the move and are empty after it.
C4_CapturesListEachRemovedStoneOnce ==
    (PlacementProcessed /\ ~an_raised) =>
        /\ Range(LastReport.captures) = RemovedCells
        /\ Len(LastReport.captures) = Cardinality(RemovedCells)
        /\ LastReport.captured_count = Cardinality(RemovedCells)

\* C4 for analyze_sgf_game: the same statement about the reports of the
\* sgfmill-based analyzer.
C4_SgfCapturesListEachRemovedStoneOnce ==
    SgfPlayed =>
        /\ Range(LastSgfReport.captures) = SgfRemovedCells
        /\ Len(LastSgfReport.captures) = Cardinality(SgfRemovedCells)
        /\ LastSgfReport.captured_count = Cardinality(SgfRemovedCells)

\* C5: the type of a placement is the label of the first rule that matches,
\* in the order Capture, Atari, Cut, Connection, Atari Threat, Contact Move:
\* a lower label is never assigned while a higher finding holds.  Stated of
\* the reports of analyze_sgf_game, which carry the findings captured_count,
\* atari and atari_threats.
C5_TypeIsFirstMatchingRule ==
    SgfPlayed =>
        LET r == LastSgfReport
        IN  /\ r.captured_count > 0 => r.type = "Capture"
            /\ (r.captured_count = 0 /\ r.atari # <<>>) => r.type = "Atari"
            /\ (r.captured_count = 0 /\ r.atari = <<>> /\ r.atari_threats # <<>>)
                   => r.type = "Atari Threat"
            /\ r.type = "Contact Move"
                   => (r.captured_count = 0 /\ r.atari = <<>> /\ r.atari_threats = <<>>)

\* C5 for GameAnalyzer.analyze: the same order over the findings its reports
\* carry.
C5_BackendTypeIsFirstMatchingRule ==
    (PlacementProcessed /\ ~an_raised) =>
        LET r == LastReport
            first == IF r.captured_count > 0 THEN "Capture"
                     ELSE IF r.atari # <<>> THEN "Atari"
                     ELSE IF r.is_cut THEN "Cut"
                     ELSE IF r.is_connection THEN "Connection"
                     ELSE IF r.atari_threats # <<>> THEN "Atari Threat"
                     ELSE IF r.is_contact THEN "Contact Move"
                     ELSE ""
        IN  /\ first # "" => r.type = first
            /\ first = "" => r.type \notin {"Capture", "Atari", "Cut", "Connection",
                                            "Atari Threat", "Contact Move"}

\* C6: every report with captured_count > 0 has type Capture and intensity
\* percussive_hit, also when the move leaves an opposing group in atari or
\* the placed stone's own group with one liberty.
C6_CaptureIsPercussiveHit ==
    (SgfPlayed /\ LastSgfReport.captured_count > 0) =>
        /\ LastSgfReport.type = "Capture"
        /\ LastSgfReport.musical_intensity = "percussive_hit"

\* C6, the type alone: every report with captured_count > 0 has type Capture.
C6_CaptureIsTypedCapture ==
    (SgfPlayed /\ LastSgfReport.captured_count > 0) => LastSgfReport.type = "Capture"

\* C7: on a board whose size is not 19, a placement with no capture, atari,
\* cut, connection, atari threat or contact is typed Normal Move; the first
\* move at (4,4) of the 9x9 board has distance_from_center 0, no captures,
\* no atari and type Normal Move.
C7_QuietMoveIsNormalMove ==
    (PlacementProcessed /\ ~an_raised /\ size # 19) =>
        LET r == LastReport
        IN  /\ (/\ r.captured_count = 0
                /\ r.atari = <<>>
                /\ ~r.is_cut
                /\ ~r.is_connection
                /\ r.atari_threats = <<>>
                /\ ~r.is_contact) => r.type = "Normal Move"
            /\ (size = 9 /\ an_i = 1 /\ r.coords = <<4, 4>>)
                   => /\ r.distance_from_center = 0
                      /\ r.captures = <<>>
                      /\ r.atari = <<>>
                      /\ r.type = "Normal Move"

\* C7, the scenario alone: the first move at (4,4) of the empty 9x9 board.
C7_CentreOfNineByNine ==
    (size = 9 /\ an_i = 1 /\ PlacementProcessed /\ ~an_raised
        /\ LastReport.coords = <<4, 4>>)
        => /\ LastReport.distance_from_center = 0
           /\ LastReport.captures = <<>>
           /\ LastReport.atari = <<>>
           /\ LastReport.type = "Normal Move"

\* C8: a pass record yields a report with type Pass and coords none, and
\* processing it changes no cell of the board and neither player's tracked
\* previous placement.
C8_PassReportAndFrame ==
    [][(an_i' = an_i + 1 /\ (an_move'.x = NoneNum \/ an_move'.y = NoneNum))
          => /\ moves_analysis'.len = moves_analysis.len + 1
             /\ moves_analysis'.last.type = "Pass"
             /\ moves_analysis'.last.coords = None
             /\ board' = board
             /\ previous_friendly_stones' = previous_friendly_stones]_vars

\* C8 without the coords entry: the pass report has type Pass and the pass
\* changes neither the board nor the tracked previous placements.
C8_PassFrame ==
    [][(an_i' = an_i + 1 /\ (an_move'.x = NoneNum \/ an_move'.y = NoneNum))
          => /\ moves_analysis'.len = moves_analysis.len + 1
             /\ moves_analysis'.last.type = "Pass"
             /\ board' = board
             /\ previous_friendly_stones' = previous_friendly_stones]_vars

\* C8 for analyze_sgf_game: the same statement about a pass node.
C8_SgfPassReportAndFrame ==
    [][(sg_i' = sg_i + 1 /\ sg_node'[2] = None)
          => /\ analysis_log'.len = analysis_log.len + 1
             /\ analysis_log'.last.type = "Pass"
             /\ analysis_log'.last.coords = None
             /\ sgf_board' = sgf_board]_vars

\* C9: after k records, whatever they are (passes, placements on occupied
\* cells, out-of-range placements), analysis has produced k reports and the
\* k-th has move_number k.
C9_OneNumberedReportPerRecord ==
    /\ ~an_raised
    /\ moves_analysis.len = an_i
    /\ an_i > 0 => LastReport.move_number = an_i

\* C9 for analyze_sgf_game.
C9_SgfOneNumberedReportPerNode ==
    /\ analysis_log.len = sg_i
    /\ sg_i > 0 => LastSgfReport.move_number = sg_i

\* A report carries an explicit illegal-move or error marker.
HasIllegalMarker(r) ==
    \/ r.type \in {"Illegal Move", "Error"}
    \/ DOMAIN r \cap {"reason", "error", "illegal"} # {}

\* C10: a placement the board rejects (occupied cell or coordinates out of
\* range) produces a report with an illegal-move marker, and the board after
\* the record equals the board before it.
C10_RejectedPlacementIsMarked ==
    (PlacementProcessed
        /\ (~InRange(pm_x, pm_y, size) \/ pm_before.board[pm_point] # 0))
        => /\ ~an_raised
           /\ LastReport.move_number = an_i
           /\ HasIllegalMarker(LastReport)
           /\ board = pm_before.board

\* C10 for a placement on an occupied cell alone.
C10_OccupiedPlacementIsMarked ==
    (PlacementProcessed /\ InRange(pm_x, pm_y, size) /\ pm_before.board[pm_point] # 0)
        => /\ HasIllegalMarker(LastReport)
           /\ board = pm_before.board

\* C10, the frame alone: a rejected placement leaves the board as it was.
C10_RejectedPlacementKeepsBoard ==
    (PlacementProcessed
        /\ (~InRange(pm_x, pm_y, size) \/ pm_before.board[pm_point] # 0))
        => board = pm_before.board

\* C10 for analyze_sgf_game: a placement board.play refuses is reported as
\* Illegal Move with a reason, and the board is left as it was.
C10_SgfRejectedPlacementIsMarked ==
    (SgfPlacementProcessed
        /\ (\/ ~is_on_board(sg_node[2][1], sg_node[2][2], size)
            \/ SgfBefore[sg_node[2]] # LIST_EMPTY))
        => /\ HasIllegalMarker(LastSgfReport)
           /\ SgfAfter = SgfBefore

----------------------------------------------------------------------------
(* Properties of the tactical findings. *)

\* The stones connected to the stones of S through neighbours of the same
\* colour on board b.
RECURSIVE ChainOf(_, _, _)
ChainOf(b, n, S) ==
    LET more == {d \in Cells(n) \ S :
                    \E c \in S : d \in NeighborSet(c, n) /\ b[d] = b[c]}
    IN  IF more = {} THEN S ELSE ChainOf(b, n, S \cup more)

\* The empty cells next to a stone of S on board b.
LibertiesOf(b, n, S) ==
    {d \in Cells(n) : b[d] = 0 /\ \E c \in S : d \in NeighborSet(c, n)}

\* The groups of colour `colour` with a stone next to point c on board b.
GroupsNextTo(b, n, c, colour) ==
    {ChainOf(b, n, {d}) : d \in {e \in NeighborSet(c, n) : b[e] = colour}}

\* The same three notions on an sgfmill board as board_to_list shows it.
RECURSIVE SgfChainOf(_, _, _)
SgfChainOf(bl, n, S) ==
    LET more == {d \in Cells(n) \ S :
                    \E c \in S : d \in SgfNeighborSet(c, n) /\ bl[d] = bl[c]}
    IN  IF more = {} THEN S ELSE SgfChainOf(bl, n, S \cup more)

SgfLibertiesOf(bl, n, S) ==
    {d \in Cells(n) : bl[d] = LIST_EMPTY /\ \E c \in S : d \in SgfNeighborSet(c, n)}

SgfGroupsNextTo(bl, n, c, colour) ==
    {SgfChainOf(bl, n, {d}) : d \in {e \in SgfNeighborSet(c, n) : bl[e] = colour}}

\* The colour of the opponent of the player of the last sgf report.
SgfOpponent == IF LastSgfReport.player = LIST_BLACK THEN LIST_WHITE ELSE LIST_BLACK

\* The last record was a placement that play_move applied.
PlacementApplied ==
    /\ PlacementProcessed
    /\ ~an_raised
    /\ InRange(pm_x, pm_y, size)
    /\ pm_before.board[pm_point] = 0
    /\ board[pm_point] = pm_player

\* C11: in the atari list of a placement report each opposing group with
\* one liberty on the after-move board appears at most once, also when it
\* touches the placed stone at two or more cells.
C11_AtariGroupListedOnce ==
    PlacementApplied =>
        \A i, j \in 1 .. Len(LastReport.atari) :
            i # j => ChainOf(board, size, {LastReport.atari[i]})
                         # ChainOf(board, size, {LastReport.atari[j]})

\* C11 for analyze_sgf_game: no two entries of the atari list share a stone.
C11_SgfAtariGroupListedOnce ==
    SgfPlayed =>
        \A i, j \in 1 .. Len(LastSgfReport.atari) :
            i # j => Range(LastSgfReport.atari[i]) \cap Range(LastSgfReport.atari[j]) = {}

\* C12: atari_threats of a placement report is non-empty exactly when an
\* opposing group next to the placed stone has exactly two liberties on the
\* after-move board, whatever the liberties of the placed stone's own group.
C12_ThreatsAreOpposingGroupsWithTwoLiberties ==
    (PlacementProcessed /\ ~an_raised) =>
        (LastReport.atari_threats # <<>>
            <=> \E g \in GroupsNextTo(board, size, pm_point, 3 - pm_player) :
                    Cardinality(LibertiesOf(board, size, g)) = 2)

\* C12 for analyze_sgf_game.
C12_SgfThreatsAreOpposingGroupsWithTwoLiberties ==
    SgfPlayed =>
        (LastSgfReport.atari_threats # <<>>
            <=> \E g \in SgfGroupsNextTo(SgfAfter, size, sg_node[2], SgfOpponent) :
                    Cardinality(SgfLibertiesOf(SgfAfter, size, g)) = 2)

\* C13: the contact flag of a placement is true exactly when a neighbour of
\* the move point held the opposing colour on the board before the move, so
\* a move that captures its only adjacent opposing stones is a contact play.
\* Stated of is_contact, the value analyze_patterns_after_move takes from
\* _is_contact_play on the board the move has left.
C13_ContactIsOpposingNeighbourBefore ==
    SgfPlayed =>
        (is_contact_play(sgf_board, sg_node[2][1], sg_node[2][2], sg_node[1], size)
            <=> \E p \in SgfNeighborSet(sg_node[2], size) : SgfBefore[p] = SgfOpponent)

\* C13 for GameAnalyzer.analyze: the is_contact entry of the report.
C13_BackendContactIsOpposingNeighbourBefore ==
    (PlacementProcessed /\ ~an_raised) =>
        (LastReport.is_contact
            <=> \E c \in NeighborSet(pm_point, size) : pm_before.board[c] = 3 - pm_player)

(***************************************************************************)
(* Properties of the move applicator and the group finders.               *)
(***************************************************************************)

\* The board of the last play_move call with the stone written on the point,
\* before anything is removed.
pm_placed == [pm_before.board EXCEPT ![pm_point] = pm_player]

\* The last play_move call was on an empty cell of the board.
OnEmptyCell ==
    /\ Called
    /\ InRange(pm_x, pm_y, size)
    /\ pm_before.board[pm_point] = 0

\* The stone of the last call takes the last liberty of an opposing group
\* next to it.
TakesLastLiberty ==
    \E g \in GroupsNextTo(pm_placed, size, pm_point, 3 - pm_player) :
        LibertiesOf(pm_placed, size, g) = {}

\* The last call was a placement on an empty cell that captures nothing and
\* leaves the group of the placed stone without a liberty.
SuicidePlacement ==
    /\ OnEmptyCell
    /\ ~TakesLastLiberty
    /\ LibertiesOf(pm_placed, size, ChainOf(pm_placed, size, {pm_point})) = {}

\* C14 as stated: a placement on an empty in-range cell that captures nothing
\* and leaves the placed stone's own group with zero liberties is applied,
\* the stone is on the board after the call.
C14_SuicideIsApplied ==
    SuicidePlacement => board[pm_point] = pm_player

\* C14 amended: such a placement is rejected, play_move returns the empty
\* list and leaves board and history as they were; a placement on an empty
\* cell that takes the last liberty of an opposing group is applied, also
\* when the placed stone has no liberty of its own before the removal.
C14_SuicideIsRejected ==
    /\ SuicidePlacement =>
           /\ pm_ret = <<>>
           /\ board = pm_before.board
           /\ history = pm_before.history
    /\ (OnEmptyCell /\ TakesLastLiberty) =>
           /\ board[pm_point] = pm_player
           /\ pm_ret # <<>>
           /\ history.len = pm_before.history.len + 1

\* A one-stone suicide and a suicide of a group of several stones are tried.
C14_Witness ==
    /\ SuicidePlacement
    /\ Cardinality(ChainOf(pm_placed, size, {pm_point})) > 1

\* A capture by a stone with no liberty of its own before the removal is
\* played.
C14_CaptureWithoutLiberty ==
    ~(/\ OnEmptyCell
      /\ TakesLastLiberty
      /\ LibertiesOf(pm_placed, size, ChainOf(pm_placed, size, {pm_point})) = {})

\* The group finders have been called from a point of the board.
GroupFound == gg_pos # <<>>

\* C15: from an occupied cell the group finder returns cells that all hold
\* the colour of the start cell, the start cell among them; the result is
\* closed under same-colour orthogonal adjacency, and the group finder called
\* from any member of it returns the same set; from an empty cell it returns
\* the empty group.  Both GoBoard.get_group and GameAnalyzer._get_group.
C15_GroupIsOneColourMaximalIdempotent ==
    GroupFound =>
        /\ board[gg_pos] = 0 => gg_ret.stones = {}
        /\ board[gg_pos] # 0 =>
               /\ gg_pos \in gg_ret.stones
               /\ \A c \in gg_ret.stones :
                      /\ board[c] = board[gg_pos]
                      /\ \A d \in NeighborSet(c, size) :
                             board[d] = board[c] => d \in gg_ret.stones
                      /\ get_group(c[1], c[2], board, size).stones = gg_ret.stones
        /\ sgf_board[gg_pos] = SGF_EMPTY => gg_ret.sgf_stones = {}
        /\ sgf_board[gg_pos] # SGF_EMPTY =>
               /\ gg_pos \in gg_ret.sgf_stones
               /\ \A c \in gg_ret.sgf_stones :
                      /\ sgf_board[c] = sgf_board[gg_pos]
                      /\ \A d \in SgfNeighborSet(c, size) :
                             sgf_board[d] = sgf_board[c] => d \in gg_ret.sgf_stones
                      /\ sgf_get_group(sgf_board, c, size) = gg_ret.sgf_stones

\* A group of four or more stones is found from one of its ends while
\* another stone of the same colour lies apart from it.
C15_Witness ==
    /\ GroupFound
    /\ board[gg_pos] # 0
    /\ Cardinality(gg_ret.stones) >= 4
    /\ gg_ret.sgf_stones = gg_ret.stones
    /\ Cardinality({d \in NeighborSet(gg_pos, size) : board[d] = board[gg_pos]}) = 1
    /\ \E c \in Cells(size) \ gg_ret.stones : board[c] = board[gg_pos]

\* Both group finders return the chain of the start cell and nothing else.
C15_GroupIsTheChain ==
    (GroupFound /\ board[gg_pos] # 0) =>
        /\ gg_ret.stones = ChainOf(board, size, {gg_pos})
        /\ gg_ret.sgf_stones = gg_ret.stones

(***************************************************************************)
(* Properties of the cut and connection findings.                         *)
(***************************************************************************)

\* Two distinct opposing groups next to the point of the last placement on
\* the board before it, whose only common liberty there is that point.
CutPairBefore ==
    \E g1, g2 \in GroupsNextTo(pm_before.board, size, pm_point, 3 - pm_player) :
        /\ g1 # g2
        /\ LibertiesOf(pm_before.board, size, g1) \cap LibertiesOf(pm_before.board, size, g2)
               = {pm_point}

\* C16: is_cut of a placement report is true exactly when, on the board
\* before the move, two distinct opposing groups next to the move point have
\* liberty sets that meet in the move point alone; with fewer than two such
\* groups, or when every pair shares another liberty, it is false.
C16_CutIsOnlyCommonLiberty ==
    (PlacementProcessed /\ ~an_raised) => (LastReport.is_cut <=> CutPairBefore)

\* A cut is reported for an applied placement, and so is a placement between
\* two opposing groups that share another liberty.
C16_Witness ==
    /\ PlacementApplied
    /\ LastReport.is_cut
    /\ Cardinality(GroupsNextTo(pm_before.board, size, pm_point, 3 - pm_player)) >= 3

\* The case C16 rules out is met: two opposing groups next to the move
\* point, every pair with another common liberty, and no cut reported.
C16_NoCutBetweenGroupsSharingMore ==
    ~(/\ PlacementApplied
      /\ ~LastReport.is_cut
      /\ Cardinality(GroupsNextTo(pm_before.board, size, pm_point, 3 - pm_player)) >= 2)

\* The neighbours of the point of the last placement that held the player's
\* colour on the board before it.
FriendsBefore == {c \in NeighborSet(pm_point, size) : pm_before.board[c] = pm_player}

\* C17: is_connection of a placement report is true exactly when at least
\* two neighbours of the move point held the player's colour before the
\* move, they lay in at least two distinct groups on the board before the
\* move, and on the board after it all of them lie in the group of the
\* placed stone; it is false when all friendly neighbours were one group.
C17_ConnectionJoinsSeparateGroups ==
    (PlacementProcessed /\ ~an_raised) =>
        (LastReport.is_connection <=>
            /\ Cardinality(FriendsBefore) >= 2
            /\ Cardinality(GroupsNextTo(pm_before.board, size, pm_point, pm_player)) >= 2
            /\ board[pm_point] # 0
            /\ FriendsBefore \subseteq ChainOf(board, size, {pm_point}))

\* A connection is reported for an applied placement.
C17_Witness ==
    /\ PlacementApplied
    /\ LastReport.is_connection

\* The case C17 rules out is met: two friendly neighbours that were
\* one group already, and no connection reported.
C17_NoConnectionWithinOneGroup ==
    ~(/\ PlacementApplied
      /\ Cardinality(FriendsBefore) >= 2
      /\ Cardinality(GroupsNextTo(pm_before.board, size, pm_point, pm_player)) = 1
      /\ ~LastReport.is_connection)

\* Two separate friendly groups next to the point of a placement that is not
\* applied: the point holds a stone, or the placement is a suicide.
C17_SeparateGroupsNextToRejected ==
    ~(/\ PlacementProcessed
      /\ ~an_raised
      /\ ~PlacementApplied
      /\ Cardinality(GroupsNextTo(pm_before.board, size, pm_point, pm_player)) >= 2)

(***************************************************************************)
(* Properties of the previous-move tracking of GameAnalyzer.analyze.      *)
(***************************************************************************)

\* The other player's key in previous_friendly_stones.
OtherPlayer(p) == IF p = "B" THEN "W" ELSE "B"

\* The square of the distance between two points.
SquaredDistance(c, d) == (c[1] - d[1]) * (c[1] - d[1]) + (c[2] - d[2]) * (c[2] - d[2])

\* What one iteration of the loop of analyze does to the tracked previous
\* placements, and the previous-move distance it reports.
PreviousStoneStep ==
    an_i' = an_i + 1 =>
        IF an_move'.x = NoneNum \/ an_move'.y = NoneNum \/ an_raised'
        THEN previous_friendly_stones' = previous_friendly_stones
        ELSE /\ previous_friendly_stones'[an_move'.player] = <<an_move'.x, an_move'.y>>
             /\ previous_friendly_stones'[OtherPlayer(an_move'.player)]
                    = previous_friendly_stones[OtherPlayer(an_move'.player)]
             /\ moves_analysis'.last.distance_from_previous_friendly_stone
                    = IF previous_friendly_stones[an_move'.player] = None
                      THEN NoneNum
                      ELSE SquaredDistance(<<an_move'.x, an_move'.y>>,
                                           previous_friendly_stones[an_move'.player])

\* C18: the previous-move distance of a placement report is measured to the
\* same player's placement record immediately before it and is absent on
\* that player's first placement; the tracked previous placement of a
\* player is changed by that player's placements only, not by a pass nor by
\* the other player's moves, and is empty for both players when the analysis
\* starts.
C18_PreviousStoneIsPerPlayer ==
    /\ previous_friendly_stones = [B |-> None, W |-> None]
    /\ [][PreviousStoneStep]_vars

\* Both players have a tracked placement, on different points, and the last
\* report measures a distance to the earlier placement of its player.
C18_Witness ==
    /\ PlacementProcessed
    /\ ~an_raised
    /\ an_i >= 3
    /\ previous_friendly_stones.B # None
    /\ previous_friendly_stones.W # None
    /\ previous_friendly_stones.B # previous_friendly_stones.W
    /\ LastReport.distance_from_previous_friendly_stone > 0

(***************************************************************************)
(* Properties of the opening and shape labels on the 19x19 board.         *)
(***************************************************************************)

\* The last record was a placement on the 19x19 board that play_move applied.
OpeningPlacement == size = OpeningSize /\ PlacementApplied

\* C19: on a 19x19 board the label First Corner Play goes only to a move
\* that lies in a corner region and is the first stone its player has in any
\* corner; it is assigned at most once per player over a game.  The corner
\* region is taken as widely as is_corner_play takes it.
C19_FirstCornerPlayIsInACorner ==
    (OpeningPlacement /\ LastReport.type = "First Corner Play") =>
        /\ is_corner_play(pm_x, pm_y, size)
        /\ \A c \in Cells(size) :
               pm_before.board[c] = pm_player => ~is_corner_play(c[1], c[2], size)

\* The label is given to the record with move index 0 and to no other, so at
\* most once in a game.
C19_FirstCornerPlayOnlyOnFirstRecord ==
    (size = OpeningSize /\ PlacementProcessed /\ ~an_raised
        /\ LastReport.type = "First Corner Play") => an_i = 1

\* A later first stone in a corner of the player who did not open the game
\* does not get the label.
C19_LaterCornerStoneIsNotLabelled ==
    ~(/\ OpeningPlacement
      /\ an_i > 1
      /\ pm_point = <<1, 1>>
      /\ \A c \in Cells(size) :
             pm_before.board[c] = pm_player => ~is_corner_play(c[1], c[2], size)
      /\ LastReport.type # "First Corner Play")

\* The last placement on the 19x19 board matches none of the tactical rules
\* and none of the opening rules of classify_move.
QuietOpeningPlacement ==
    /\ OpeningPlacement
    /\ LastReport.captured_count = 0
    /\ LastReport.atari = <<>>
    /\ ~LastReport.is_cut
    /\ ~LastReport.is_connection
    /\ LastReport.atari_threats = <<>>
    /\ ~LastReport.is_contact
    /\ pm_point \notin StarPoints \cup ThreeThreePoints \cup ThreeFourPoints
    /\ an_i > 1
    /\ ~is_corner_play(pm_x, pm_y, size)

\* C20: on a 19x19 board a placement that matches none of the tactical or
\* opening rules is typed One-Space Jump when its nearest friendly stone is at
\* distance exactly 2.0, and Two-Space Jump when it is at distance exactly
\* 3.0; no earlier rule takes the label away.  Distances are kept squared.
C20_JumpDistancesAreTypedJumps ==
    QuietOpeningPlacement =>
        /\ LastReport.distance_to_nearest_friendly_stone = 4 =>
               LastReport.type = "One-Space Jump"
        /\ LastReport.distance_to_nearest_friendly_stone = 9 =>
               LastReport.type = "Two-Space Jump"

\* No report on the 19x19 board has the type One-Space Jump.
C20_OneSpaceJumpIsNeverAssigned ==
    (size = OpeningSize /\ an_i > 0 /\ ~an_raised) => LastReport.type # "One-Space Jump"

\* The type Two-Space Jump is assigned, to a quiet placement at distance 3.0.
C20_TwoSpaceJumpIsAssigned ==
    ~(QuietOpeningPlacement /\ LastReport.type = "Two-Space Jump")

(***************************************************************************)
(* Properties of is_corner_play, play_move's frame and detect_atari_threat.*)
(***************************************************************************)

\* The line a coordinate lies on, counted from the nearer edge of the board.
LineFromEdge(v, n) == IF v <= n - 1 - v THEN v ELSE n - 1 - v

\* The point lies within the lines 0 to 3 of its two nearest edges, the 4x4
\* area of a corner.
InFourByFourCorner(c, n) == LineFromEdge(c[1], n) <= 3 /\ LineFromEdge(c[2], n) <= 3

\* C21: is_corner_play(x, y) is true exactly when (x, y) lies within the 4x4
\* area (lines 0 to 3 from the two nearest edges) of one of the four corners,
\* and false for every other cell; read from the is_corner_play entry of the
\* placement report.
C21_CornerPlayIsFourByFourArea ==
    (PlacementProcessed /\ ~an_raised) =>
        (LastReport.is_corner_play <=> InFourByFourCorner(pm_point, size))

\* Within the lines 0 to 3 of a corner is_corner_play is true.
C21_FourByFourAreaIsCornerPlay ==
    (PlacementProcessed /\ ~an_raised /\ InFourByFourCorner(pm_point, size)) =>
        LastReport.is_corner_play

\* The last play_move call was applied: it was made on an empty cell of the
\* board and has put the player's stone there.
PlayApplied == OnEmptyCell /\ board[pm_point] = pm_player

\* The stones of the opposing groups next to the point of the last call that
\* have no liberty once the stone is placed.
SmotheredStones ==
    UNION {g \in GroupsNextTo(pm_placed, size, pm_point, 3 - pm_player) :
              LibertiesOf(pm_placed, size, g) = {}}

\* The board differs from the board before the last call in the move point,
\* which holds the player's stone, and in the stones of SmotheredStones, which
\* are gone, and in no other cell.
OnlyPointAndSmotheredChanged ==
    /\ board[pm_point] = pm_player
    /\ {c \in Cells(size) \ {pm_point} : board[c] # pm_before.board[c]} = SmotheredStones
    /\ \A c \in Cells(size) \ {pm_point} : board[c] # pm_before.board[c] => board[c] = 0

\* C22: an applied play_move changes only the move point, set to the
\* player's colour, and the cells of the opposing groups next to it that have
\* no liberty after the placement, set to empty; each such group is removed
\* in full, also when one move captures several groups, and every other cell
\* keeps its value.
C22_AppliedMoveChangesPointAndCapturedGroups ==
    PlayApplied => OnlyPointAndSmotheredChanged

\* One move captures two groups.
C22_Witness ==
    /\ PlayApplied
    /\ Cardinality({g \in GroupsNextTo(pm_placed, size, pm_point, 3 - pm_player) :
                       LibertiesOf(pm_placed, size, g) = {}}) >= 2

\* One move captures two groups, one of them of several stones: met from the
\* positions of SpecPosition.
C22_SeveralGroupsOfSeveralStones ==
    ~(/\ C22_Witness
      /\ Cardinality(SmotheredStones) >= 3)

\* C23: detect_atari_threat leaves the board cell for cell as it was before
\* the call, whatever the board and the move point, so the board one
\* iteration of analyze hands to the next is the board play_move has left:
\* the board before the move when the placement is rejected, and that board
\* with the stone placed and the captured groups removed when it is applied.
C23_ThreatDetectionRestoresBoard ==
    (PlacementProcessed /\ ~an_raised) =>
        IF OnEmptyCell /\ ~SuicidePlacement
        THEN OnlyPointAndSmotheredChanged
        ELSE board = pm_before.board

\* The loop of detect_atari_threat has written on both liberties of the
\* group of the placed stone and has found a threat.
C23_Witness ==
    /\ PlacementApplied
    /\ LastReport.liberties = 2
    /\ LastReport.atari_threats # <<>>
    /\ LastReport.captured_count > 0

\* The loop has run on the group of a stone that a rejected placement found
\* on its point.
C23_LoopOnRejectedPlacement ==
    ~(/\ PlacementProcessed
      /\ ~an_raised
      /\ ~PlacementApplied
      /\ LastReport.liberties = 2)

=============================================================================
